---- MODULE Spec2Model ----
(***************************************************************************)
(* Model of the w25 serial NOR flash driver (src/src/lib.rs).              *)
(*                                                                         *)
(* lib.rs holds the controller struct W25, its constructor, the two        *)
(* control line setters, the capacity-derived counts, the Command opcode   *)
(* table, the Error type and the frame encoder command_and_address.        *)
(* The flash operations live in the module commands_impl, which lib.rs     *)
(* only declares (line 10); they are modelled here from spec.md sections   *)
(* 4.2 and 7 and are marked as such where they are defined.                *)
(***************************************************************************)
EXTENDS Integers, Sequences, FiniteSets, TLC

VARIABLES
    ctl,        \* "none": no controller exists; "live": W25::new returned Ok
    series,     \* the Series type parameter, "Q" or "X"
    capacity,   \* W25.capacity
    given,      \* the capacity argument handed to W25::new (history)
    holdLevel,  \* the level the HOLD line is at
    wpLevel,    \* the level the WP line is at
    lastOp,     \* the operation that ran last and its arguments (history)
    result,     \* what that operation returned
    holdLog,    \* calls that operation made on the HOLD pin, in order
    wpLog,      \* calls that operation made on the WP pin, in order
    bus,        \* transactions that operation attempted on the SPI bus
    encArgs,    \* arguments of the command_and_address call (history)
    frame       \* what that call returned

vars == <<ctl, series, capacity, given, holdLevel, wpLevel, lastOp, result,
          holdLog, wpLog, bus, encArgs, frame>>

ctlVars == <<ctl, series, capacity, given, holdLevel, wpLevel, lastOp,
             result, holdLog, wpLog, bus>>

(***************************************************************************)
(* Input sets.  W25 keeps no state besides its handles and the capacity,   *)
(* so every operation is explored from every state the controller and      *)
(* its lines can be in, with the calls it makes recorded per operation.    *)
(***************************************************************************)
(***************************************************************************)
(* u32 values.  TLC's integers stop at 2^31 - 1, so a u32 is the pair      *)
(* <<hi, lo>> of its 16-bit halves, value hi * 65536 + lo.                 *)
(***************************************************************************)
W(hi, lo) == <<hi, lo>>

FromInt(n) == <<n \div 65536, n % 65536>>

U32Max == W(65535, 65535)

Caps == {FromInt(70000), FromInt(2^24), U32Max}

Addrs == {FromInt(0), FromInt(4660), FromInt(6144), FromInt(32768),
          FromInt(983040), FromInt(2^24), U32Max}

Lens == {FromInt(1), FromInt(70000), U32Max}

DataLens == {1, 256, 257}

EncAddrs == {FromInt(0), FromInt(4660), FromInt(61440), FromInt(2^24 - 1),
             FromInt(2^24), FromInt(2^24 + 4660), W(32768, 61440), U32Max}

Bytes == 0..255

Statuses == {1, 2}

\* the transport fails an operation's n-th transaction, n in 1..MaxFailAt,
\* or none (0)
MaxFailAt == 3

FailAts == 0..MaxFailAt

PinErrs == {"P1", "P2"}

PinResults == {"ok"} \cup PinErrs

SpiErrs == {"S1"}

Levels == {"High", "Low"}

SeriesSet == {"Q", "X"}

NoAddr == <<>>

(***************************************************************************)
(* Machine arithmetic: u32 bitwise and, right shift, and the `as u8` cast. *)
(***************************************************************************)
RECURSIVE BitAnd(_, _)
BitAnd(x, y) ==
    IF x = 0 \/ y = 0 THEN 0
    ELSE (x % 2) * (y % 2) + 2 * BitAnd(x \div 2, y \div 2)

\* x & y
WAnd(x, y) == <<BitAnd(x[1], y[1]), BitAnd(x[2], y[2])>>

\* x >> n, for 0 <= n <= 16
Shr(x, n) ==
    <<x[1] \div (2^n), (x[2] \div (2^n)) + (x[1] % (2^n)) * (2^(16 - n))>>

\* x as u8
AsU8(x) == x[2] % 256

WLt(x, y) == x[1] < y[1] \/ (x[1] = y[1] /\ x[2] < y[2])

WLe(x, y) == x = y \/ WLt(x, y)

\* the exact sum x + y, a 33-bit value <<carry, hi, lo>>
WSum(x, y) ==
    LET lo == x[2] + y[2]
        hi == x[1] + y[1] + (lo \div 65536)
    IN  <<hi \div 65536, hi % 65536, lo % 65536>>

\* u32 division and remainder by a divisor 0 < m <= 65536, byte by byte;
\* the quotient is returned as an integer (it is below 2^31 for m >= 2)
WBytes(x) == <<x[1] \div 256, x[1] % 256, x[2] \div 256, x[2] % 256>>

RECURSIVE LongDiv(_, _, _, _, _)
LongDiv(bs, i, m, q, r) ==
    IF i > Len(bs) THEN [q |-> q, r |-> r]
    ELSE LET t == r * 256 + bs[i]
         IN  LongDiv(bs, i + 1, m, q * 256 + (t \div m), t % m)

WDiv(x, m) == LongDiv(WBytes(x), 1, m, 0, 0).q

WMod(x, m) == LongDiv(WBytes(x), 1, m, 0, 0).r

(***************************************************************************)
(* NorSeries: the per-series constants (lib.rs 18-33).                     *)
(***************************************************************************)
PAGE_SIZE(s) == CASE s = "Q" -> 256 [] s = "X" -> 256

\* faulty variant: 8 pages to the sector
SECTOR_SIZE_half(s) == PAGE_SIZE(s) * 8

SECTOR_SIZE(s) == PAGE_SIZE(s) * 16

\* trait Reset is implemented for Q only (lib.rs 36-38)
HasReset(s) == s = "Q"

(***************************************************************************)
(* enum Command (lib.rs 41-57).                                            *)
(***************************************************************************)
CommandNames == {"PageProgram", "ReadData", "ReadStatusRegister1",
                 "WriteEnable", "SectorErase", "UniqueId", "Block32Erase",
                 "Block64Erase", "ChipErase", "EnableReset", "PowerDown",
                 "ReleasePowerDown", "JedecId", "Reset"}

\* faulty variants of the table: WriteEnable given the WriteDisable opcode,
\* and EnableReset and Reset exchanged
Command_write_disable(c) ==
    CASE c = "WriteEnable" -> 4
      [] c = "PageProgram" -> 2
      [] c = "ReadData" -> 3
      [] c = "ReadStatusRegister1" -> 5
      [] c = "SectorErase" -> 32
      [] c = "UniqueId" -> 75
      [] c = "Block32Erase" -> 82
      [] c = "Block64Erase" -> 216
      [] c = "ChipErase" -> 199
      [] c = "EnableReset" -> 102
      [] c = "PowerDown" -> 185
      [] c = "ReleasePowerDown" -> 171
      [] c = "JedecId" -> 159
      [] c = "Reset" -> 153

Command_reset_swapped(c) ==
    CASE c = "EnableReset" -> 153
      [] c = "Reset" -> 102
      [] c = "PageProgram" -> 2
      [] c = "ReadData" -> 3
      [] c = "ReadStatusRegister1" -> 5
      [] c = "WriteEnable" -> 6
      [] c = "SectorErase" -> 32
      [] c = "UniqueId" -> 75
      [] c = "Block32Erase" -> 82
      [] c = "Block64Erase" -> 216
      [] c = "ChipErase" -> 199
      [] c = "PowerDown" -> 185
      [] c = "ReleasePowerDown" -> 171
      [] c = "JedecId" -> 159

Command(c) ==
    CASE c = "PageProgram"         -> 2
      [] c = "ReadData"            -> 3
      [] c = "ReadStatusRegister1" -> 5
      [] c = "WriteEnable"         -> 6
      [] c = "SectorErase"         -> 32
      [] c = "UniqueId"            -> 75
      [] c = "Block32Erase"        -> 82
      [] c = "Block64Erase"        -> 216
      [] c = "ChipErase"           -> 199
      [] c = "EnableReset"         -> 102
      [] c = "PowerDown"           -> 185
      [] c = "ReleasePowerDown"    -> 171
      [] c = "JedecId"             -> 159
      [] c = "Reset"               -> 153

(***************************************************************************)
(* enum Error (lib.rs 152-163) and the Ok result.                          *)
(***************************************************************************)
Ok == [tag |-> "Ok", err |-> "-"]

SpiError(e) == [tag |-> "SpiError", err |-> e]

PinError(e) == [tag |-> "PinError", err |-> e]

NotAligned == [tag |-> "NotAligned", err |-> "-"]

OutOfBounds == [tag |-> "OutOfBounds", err |-> "-"]

WriteEnableFail == [tag |-> "WriteEnableFail", err |-> "-"]

(***************************************************************************)
(* command_and_address (lib.rs 176-184).                                   *)
(***************************************************************************)
\* faulty variants of the encoder: little-endian byte order, and the
\* middle byte shifted by 0 instead of 8
command_and_address_le(command, address) ==
    << command,
       AsU8(Shr(WAnd(address, W(0, 255)), 0)),
       AsU8(Shr(WAnd(address, W(0, 65280)), 8)),
       AsU8(Shr(WAnd(address, W(255, 0)), 16)) >>

command_and_address_shift(command, address) ==
    << command,
       AsU8(Shr(WAnd(address, W(255, 0)), 16)),
       AsU8(Shr(WAnd(address, W(0, 65280)), 0)),
       AsU8(Shr(WAnd(address, W(0, 255)), 0)) >>

command_and_address(command, address) ==
    << command,
       AsU8(Shr(WAnd(address, W(255, 0)), 16)),
       AsU8(Shr(WAnd(address, W(0, 65280)), 8)),
       AsU8(Shr(WAnd(address, W(0, 255)), 0)) >>

(***************************************************************************)
(* The capacity-derived counts (lib.rs 70-84).                             *)
(***************************************************************************)
get_capacity(cap) == cap

n_sectors(cap, s) == WDiv(cap, SECTOR_SIZE(s))

\* faulty variant: 32678 for 32768
n_blocks_32k_typo(cap) == WDiv(cap, 32678)

n_blocks_32k(cap) == WDiv(cap, 32768)

n_blocks_64k(cap) == WDiv(cap, 65536)

(***************************************************************************)
(* The output pins.  A pin records every call it receives with the level   *)
(* asked for and what it answered: "ok" or an error of the pin's type P.   *)
(* set_high() is set_state(High).                                          *)
(***************************************************************************)
PinCall(log, level, r) == Append(log, [level |-> level, res |-> r])

\* the level of a line after the calls in log: the last call it accepted
RECURSIVE LevelAfter(_, _)
LevelAfter(level, log) ==
    IF log = <<>> THEN level
    ELSE LevelAfter(IF Head(log).res = "ok" THEN Head(log).level ELSE level,
                    Tail(log))

\* `.map_err(Error::PinError)?`
PinResult(r) == IF r = "ok" THEN Ok ELSE PinError(r)

(***************************************************************************)
(* W25::new (lib.rs 99-112): hold high, then write-protect high, each      *)
(* with an early return on the pin's error.  holdR and wpR are what the    *)
(* two pins answer.                                                        *)
(***************************************************************************)
\* faulty variant: write-protect is never driven
new_no_wp(hold0, wp0, holdR, wpR) ==
    LET h == PinCall(hold0, "High", holdR)
    IN  [hold |-> h, wp |-> wp0, res |-> PinResult(holdR)]

new(hold0, wp0, holdR, wpR) ==
    LET h == PinCall(hold0, "High", holdR)
        w == PinCall(wp0, "High", wpR)
    IN  IF holdR # "ok" THEN [hold |-> h, wp |-> wp0, res |-> PinError(holdR)]
        ELSE IF wpR # "ok" THEN [hold |-> h, wp |-> w, res |-> PinError(wpR)]
        ELSE [hold |-> h, wp |-> w, res |-> Ok]

(***************************************************************************)
(* W25::set_hold (lib.rs 120-123) and W25::set_wp (lib.rs 131-134).        *)
(***************************************************************************)
\* faulty variant: set_hold drives the write-protect pin
set_hold_on_wp(hold0, wp0, value, r) ==
    [hold |-> hold0, wp |-> PinCall(wp0, value, r), res |-> PinResult(r)]

set_hold(hold0, wp0, value, r) ==
    [hold |-> PinCall(hold0, value, r), wp |-> wp0, res |-> PinResult(r)]

set_wp(hold0, wp0, value, r) ==
    [hold |-> hold0, wp |-> PinCall(wp0, value, r), res |-> PinResult(r)]

(***************************************************************************)
(* The SPI bus.  A transaction is one call on the bus handle: the command  *)
(* frame written (tx), the number of payload bytes written after it (wr),  *)
(* the number of bytes read back (rd), the status byte received when the   *)
(* transaction reads status register 1 (rx), whether the transport         *)
(* answered Ok (ok), and the address the controller was asked to use       *)
(* (addr, history; NoAddr for an address-free command).                    *)
(*                                                                         *)
(* The operations below are the module commands_impl, which is not part    *)
(* of the sources at hand; they follow spec.md 4.2 (the operations,        *)
(* their checks and their order), 6 (the transport contract) and 7         *)
(* (every collaborator failure is returned immediately, validation         *)
(* happens before the bus is touched).                                     *)
(*                                                                         *)
(* A run of an operation is a record st:                                   *)
(*   bus    the bus log so far                                             *)
(*   res    Ok while the operation is still running, else what it returned *)
(*   k      transactions this operation has attempted                      *)
(*   failAt the transaction of this operation the transport fails (0: none)*)
(*   status the status byte the chip answers to ReadStatusRegister1        *)
(***************************************************************************)
Begin(b, failAt, status) ==
    [bus |-> b, res |-> Ok, k |-> 0, failAt |-> failAt, status |-> status]

Return(st, r) == IF st.res = Ok THEN [st EXCEPT !.res = r] ELSE st

\* faulty variant of a bus call: the transport's error is dropped
Transact_ignore_error(st, tx, wr, rd, rx, addr) ==
    IF st.res # Ok THEN st
    ELSE LET n  == st.k + 1
             ok == n # st.failAt
         IN  [st EXCEPT
                !.bus = Append(@, [tx |-> tx, wr |-> wr, rd |-> rd,
                                   rx |-> IF ok THEN rx ELSE 0,
                                   addr |-> addr, ok |-> ok]),
                !.k = n]

\* one bus call, `.map_err(Error::SpiError)?`
Transact(st, tx, wr, rd, rx, addr) ==
    IF st.res # Ok THEN st
    ELSE LET n  == st.k + 1
             ok == n # st.failAt
         IN  [st EXCEPT
                !.bus = Append(@, [tx |-> tx, wr |-> wr, rd |-> rd,
                                   rx |-> IF ok THEN rx ELSE 0,
                                   addr |-> addr, ok |-> ok]),
                !.k = n,
                !.res = IF ok THEN Ok ELSE SpiError("S1")]

\* spec.md 4.2 Status Register Read: address-free, returns the raw byte
read_status(st) ==
    Transact(st, <<Command("ReadStatusRegister1")>>, 0, 1, st.status, NoAddr)

WEL(status) == BitAnd(status, 2) # 0

\* spec.md 4.2 Write Enable handshake: opcode 0x06, then status register 1,
\* write-enable-failed when the latch bit is not set
write_enable(st) ==
    LET s == read_status(Transact(st, <<Command("WriteEnable")>>, 0, 0, 0,
                                  NoAddr))
    IN  IF s.res = Ok /\ ~WEL(st.status) THEN Return(s, WriteEnableFail)
        ELSE s

aligned(a, unit) == WMod(a, unit) = 0

\* faulty variant of the bounds check: wrapping 32-bit addition
in_bounds_wrapping(a, l, cap) ==
    LET sum == WSum(a, l)
    IN  WLt(a, cap) /\ WLe(<<sum[2], sum[3]>>, cap)

\* spec.md 4.2 Read: address within [0, capacity) and
\* address + length <= capacity
in_bounds(a, l, cap) ==
    LET sum == WSum(a, l)
    IN  WLt(a, cap) /\ sum[1] = 0 /\ WLe(<<sum[2], sum[3]>>, cap)

\* spec.md 4.2 Read: bounds check, then the 0x03 frame followed by a read
\* of `length` bytes
read(st, cap, a, l) ==
    IF ~in_bounds(a, l, cap) THEN Return(st, OutOfBounds)
    ELSE Transact(st, command_and_address(Command("ReadData"), a), 0, l, 0, a)

\* spec.md 4.2 Page Program: alignment, then bounds (page and capacity),
\* then the handshake, then frame and data in one exchange
page_program(st, cap, s, a, n) ==
    IF ~aligned(a, PAGE_SIZE(s)) THEN Return(st, NotAligned)
    ELSE IF n > PAGE_SIZE(s) \/ ~in_bounds(a, FromInt(n), cap)
         THEN Return(st, OutOfBounds)
    ELSE Transact(write_enable(st),
                  command_and_address(Command("PageProgram"), a), n, 0, 0, a)

\* spec.md 4.2 Sector / Block32 / Block64 Erase: alignment to the erase
\* unit, then bounds, then the handshake, then the frame
erase(st, cap, cmd, unit, a) ==
    IF ~aligned(a, unit) THEN Return(st, NotAligned)
    ELSE IF ~WLt(a, cap) THEN Return(st, OutOfBounds)
    ELSE Transact(write_enable(st),
                  command_and_address(Command(cmd), a), 0, 0, 0, a)

EraseUnit(cmd, s) ==
    CASE cmd = "SectorErase"  -> SECTOR_SIZE(s)
      [] cmd = "Block32Erase" -> 32768
      [] cmd = "Block64Erase" -> 65536

\* spec.md 4.2 Chip Erase: no address; the handshake, then the opcode
chip_erase(st) ==
    Transact(write_enable(st), <<Command("ChipErase")>>, 0, 0, 0, NoAddr)

\* spec.md 4.2 Software Reset: enable-reset, then reset, each a separate
\* transaction
reset(st) ==
    Transact(Transact(st, <<Command("EnableReset")>>, 0, 0, 0, NoAddr),
             <<Command("Reset")>>, 0, 0, 0, NoAddr)

\* spec.md 4.2 Power Down / Release Power Down: address-free, one opcode
power(st, cmd) == Transact(st, <<Command(cmd)>>, 0, 0, 0, NoAddr)

(***************************************************************************)
(* The state machine.                                                      *)
(***************************************************************************)
Op(op, a, l, v) == [op |-> op, a |-> a, l |-> l, v |-> v]

Init ==
    /\ ctl = "none"
    /\ series = "Q"
    /\ capacity = FromInt(0)
    /\ given = FromInt(0)
    /\ holdLevel \in Levels
    /\ wpLevel \in Levels
    /\ lastOp = Op("none", NoAddr, FromInt(0), "-")
    /\ result = Ok
    /\ holdLog = <<>>
    /\ wpLog = <<>>
    /\ bus = <<>>
    /\ encArgs = <<>>
    /\ frame = <<>>

\* W25::new: the handles are moved in, so it runs once; on a pin error the
\* controller is dropped with them.
New ==
    /\ ctl = "none"
    /\ lastOp.op = "none"
    /\ encArgs = <<>>
    /\ \E cap \in Caps, s \in SeriesSet, holdR \in PinResults,
          wpR \in PinResults :
         LET n == new(<<>>, <<>>, holdR, wpR)
         IN  /\ holdLog' = n.hold
             /\ wpLog' = n.wp
             /\ holdLevel' = LevelAfter(holdLevel, n.hold)
             /\ wpLevel' = LevelAfter(wpLevel, n.wp)
             /\ result' = n.res
             /\ ctl' = IF n.res = Ok THEN "live" ELSE "none"
             /\ series' = s
             /\ capacity' = IF n.res = Ok THEN cap ELSE capacity
             /\ given' = cap
             /\ lastOp' = Op("new", NoAddr, FromInt(0), "-")
    /\ UNCHANGED <<bus, encArgs, frame>>

PinStep(op, value, n) ==
    /\ holdLog' = n.hold
    /\ wpLog' = n.wp
    /\ holdLevel' = LevelAfter(holdLevel, n.hold)
    /\ wpLevel' = LevelAfter(wpLevel, n.wp)
    /\ result' = n.res
    /\ lastOp' = Op(op, NoAddr, FromInt(0), value)
    /\ bus' = <<>>
    /\ UNCHANGED <<ctl, series, capacity, given, encArgs, frame>>

SetHold ==
    /\ ctl = "live"
    /\ \E value \in Levels, r \in PinResults :
         PinStep("set_hold", value, set_hold(<<>>, <<>>, value, r))

SetWp ==
    /\ ctl = "live"
    /\ \E value \in Levels, r \in PinResults :
         PinStep("set_wp", value, set_wp(<<>>, <<>>, value, r))

BusStep(op, st) ==
    /\ bus' = st.bus
    /\ result' = st.res
    /\ lastOp' = op
    /\ holdLog' = <<>>
    /\ wpLog' = <<>>
    /\ UNCHANGED <<ctl, series, capacity, given, holdLevel, wpLevel, encArgs,
                   frame>>

Read ==
    /\ ctl = "live"
    /\ \E a \in Addrs, l \in Lens, f \in FailAts :
         BusStep(Op("read", a, l, "-"),
                 read(Begin(<<>>, f, 0), capacity, a, l))

PageProgram ==
    /\ ctl = "live"
    /\ \E a \in Addrs, n \in DataLens, f \in FailAts, sr \in Statuses :
         BusStep(Op("page_program", a, FromInt(n), "-"),
                 page_program(Begin(<<>>, f, sr), capacity, series, a, n))

EraseCmds == {"SectorErase", "Block32Erase", "Block64Erase"}

Erase ==
    /\ ctl = "live"
    /\ \E cmd \in EraseCmds, a \in Addrs, f \in FailAts, sr \in Statuses :
         BusStep(Op(cmd, a, FromInt(0), "-"),
                 erase(Begin(<<>>, f, sr), capacity, cmd,
                       EraseUnit(cmd, series), a))

ChipErase ==
    /\ ctl = "live"
    /\ \E f \in FailAts, sr \in Statuses :
         BusStep(Op("ChipErase", NoAddr, FromInt(0), "-"),
                 chip_erase(Begin(<<>>, f, sr)))

\* only a series with the Reset capability has this operation
Reset ==
    /\ ctl = "live"
    /\ HasReset(series)
    /\ \E f \in FailAts :
         BusStep(Op("reset", NoAddr, FromInt(0), "-"),
                 reset(Begin(<<>>, f, 0)))

ReadStatus ==
    /\ ctl = "live"
    /\ \E f \in FailAts, sr \in Statuses :
         BusStep(Op("read_status", NoAddr, FromInt(0), "-"),
                 read_status(Begin(<<>>, f, sr)))

Power ==
    /\ ctl = "live"
    /\ \E cmd \in {"PowerDown", "ReleasePowerDown"}, f \in FailAts :
         BusStep(Op(cmd, NoAddr, FromInt(0), "-"),
                 power(Begin(<<>>, f, 0), cmd))

Next ==
    \/ New
    \/ SetHold
    \/ SetWp
    \/ Read
    \/ PageProgram
    \/ Erase
    \/ ChipErase
    \/ Reset
    \/ ReadStatus
    \/ Power

Spec == Init /\ [][Next]_vars

(***************************************************************************)
(* The encoder on its own: command is any u8, address any u32.             *)
(***************************************************************************)
Encode ==
    /\ encArgs = <<>>
    /\ lastOp.op = "none"
    /\ \E c \in Bytes, a \in EncAddrs :
         /\ encArgs' = <<c, a>>
         /\ frame' = command_and_address(c, a)
    /\ UNCHANGED ctlVars

NextEncode == Encode

SpecEncode == Init /\ [][NextEncode]_vars

(***************************************************************************)
(* Properties.                                                             *)
(***************************************************************************)
Calls(log) == {log[i] : i \in 1..Len(log)}

Mutating == {"page_program", "SectorErase", "Block32Erase", "Block64Erase",
             "ChipErase"}

Addressed == {"read", "page_program", "SectorErase", "Block32Erase",
              "Block64Erase"}

BusOps == Mutating \cup {"read", "reset", "read_status", "PowerDown",
                         "ReleasePowerDown"}

\* the opcode that starts the frame of a mutating operation
FrameOpcode(op) ==
    CASE op = "page_program" -> 2
      [] op = "SectorErase"  -> 32
      [] op = "Block32Erase" -> 82
      [] op = "Block64Erase" -> 216
      [] op = "ChipErase"    -> 199

\* bit 1 of a status byte, the write-enable latch
Latch(b) == (b \div 2) % 2 = 1

\* x - y for x >= y
WSub(x, y) ==
    IF x[2] >= y[2] THEN <<x[1] - y[1], x[2] - y[2]>>
    ELSE <<x[1] - y[1] - 1, x[2] + 65536 - y[2]>>

\* a + l > cap over the integers: a > cap, or l > cap - a
Exceeds(a, l, cap) == WLt(cap, a) \/ WLt(WSub(cap, a), l)

\* the 24-bit address the three address bytes of a frame spell
FrameAddr(tx) == <<tx[2], tx[3] * 256 + tx[4]>>

\* C1: W25::new drives hold and write-protect high at most once each and
\* touches the bus never; it returns Ok only after both lines accepted the
\* high level, once each, and then a controller exists; when a line refuses,
\* it returns PinError wrapping that line's error and no controller.
C1_NewDrivesLinesHigh ==
    lastOp.op = "new" =>
        /\ bus = <<>>
        /\ Len(holdLog) <= 1 /\ Len(wpLog) <= 1
        /\ \A c \in Calls(holdLog) \cup Calls(wpLog) : c.level = "High"
        /\ result = Ok =>
              /\ ctl = "live"
              /\ holdLog = <<[level |-> "High", res |-> "ok"]>>
              /\ wpLog = <<[level |-> "High", res |-> "ok"]>>
              /\ holdLevel = "High" /\ wpLevel = "High"
        /\ (\E c \in Calls(holdLog) \cup Calls(wpLog) : c.res # "ok") =>
              result # Ok
        /\ result # Ok =>
              /\ ctl = "none"
              /\ result.tag = "PinError"
              /\ result.err \in PinErrs
              /\ \/ holdLog[1].res = result.err
                 \/ holdLog[1].res = "ok" /\ wpLog # <<>>
                                          /\ wpLog[1].res = result.err

C1_Witness ==
    /\ lastOp.op = "new"
    /\ result = Ok
    /\ Len(holdLog) = 1 /\ Len(wpLog) = 1
    /\ ctl = "live"

\* C2: command_and_address(c, a) is the frame [c, bits 23..16 of a, bits
\* 15..8 of a, bits 7..0 of a]; (ReadData, 0x001234) gives 03 00 12 34 and
\* (SectorErase, 0x00F000) gives 20 00 F0 00; the bits of a above bit 23 do
\* not change the frame.
C2_FrameIsBigEndian ==
    encArgs # <<>> =>
        LET c == encArgs[1]
            a == encArgs[2]
        IN  /\ frame = <<c, a[1] % 256, a[2] \div 256, a[2] % 256>>
            /\ frame = command_and_address(c, <<a[1] % 256, a[2]>>)
            /\ (c = Command("ReadData") /\ a = FromInt(4660)) =>
                  frame = <<3, 0, 18, 52>>
            /\ (c = Command("SectorErase") /\ a = FromInt(61440)) =>
                  frame = <<32, 0, 240, 0>>

C2_Witness ==
    /\ encArgs = <<32, W(32768, 61440)>>
    /\ frame = <<32, 0, 240, 0>>

\* C3: a mutating operation that reaches the bus starts with WriteEnable
\* (0x06) and, once that went through, reads status register 1 (0x05, one
\* byte); when the byte read has the write-enable latch unset the operation
\* returns write-enable-failed after these two transactions, and the
\* mutating frame is only ever the third transaction, after a status byte
\* with the latch set.
C3_WriteEnableHandshake ==
    (lastOp.op \in Mutating /\ bus # <<>>) =>
        /\ bus[1].tx = <<6>>
        /\ Len(bus) >= 2 =>
              /\ bus[1].ok
              /\ bus[2].tx = <<5>>
              /\ bus[2].rd = 1
        /\ (Len(bus) >= 2 /\ bus[2].ok /\ ~Latch(bus[2].rx)) =>
              /\ result = WriteEnableFail
              /\ Len(bus) = 2
        /\ result = WriteEnableFail =>
              Len(bus) = 2 /\ bus[2].ok /\ ~Latch(bus[2].rx)
        /\ \A i \in 1..Len(bus) :
              bus[i].tx[1] = FrameOpcode(lastOp.op) =>
                  i = 3 /\ bus[2].ok /\ Latch(bus[2].rx)
        /\ result = Ok =>
              Len(bus) = 3 /\ bus[3].tx[1] = FrameOpcode(lastOp.op)

C3_Witness ==
    /\ lastOp.op = "SectorErase"
    /\ result = WriteEnableFail
    /\ Len(bus) = 2
    /\ bus[2].rx = 1

\* C4: a Read of l bytes at a with a + l > capacity returns out-of-bounds
\* and attempts no bus transaction, also when a + l exceeds 2^32 - 1.
C4_ReadOutOfBounds ==
    (lastOp.op = "read" /\ Exceeds(lastOp.a, lastOp.l, capacity)) =>
        /\ result = OutOfBounds
        /\ bus = <<>>

C4_Witness ==
    /\ lastOp.op = "read"
    /\ capacity = FromInt(70000)
    /\ lastOp.a = FromInt(4660)
    /\ lastOp.l = U32Max
    /\ result = OutOfBounds

\* C5: Page Program at an address that is no multiple of 256, and Sector /
\* Block32 / Block64 Erase at an address that is no multiple of 4096 /
\* 32768 / 65536, return not-aligned and attempt no bus transaction.
C5_NotAligned ==
    ( \/ lastOp.op = "page_program" /\ lastOp.a[2] % 256 # 0
      \/ lastOp.op = "SectorErase"  /\ lastOp.a[2] % 4096 # 0
      \/ lastOp.op = "Block32Erase" /\ lastOp.a[2] % 32768 # 0
      \/ lastOp.op = "Block64Erase" /\ lastOp.a[2] # 0 ) =>
        /\ result = NotAligned
        /\ bus = <<>>

C5_Witness ==
    /\ lastOp.op = "SectorErase"
    /\ lastOp.a = FromInt(6144)
    /\ result = NotAligned
    /\ bus = <<>>

\* an address at or beyond capacity is turned down before the bus is used
OutOfRangeCaught ==
    (lastOp.op \in Addressed /\ ~WLt(lastOp.a, capacity)) =>
        /\ result \in {OutOfBounds, NotAligned}
        /\ bus = <<>>

\* every addressed frame on the bus spells the address the caller gave
TransmittedUnchanged ==
    \A i \in 1..Len(bus) :
        bus[i].addr # NoAddr => FrameAddr(bus[i].tx) = bus[i].addr

\* C6 as stated: for every capacity W25::new accepts, an address at or
\* beyond capacity is caught by the controller, and every address that
\* passes the bounds check is transmitted unchanged in the three address
\* bytes of the frame.
C6_AsStated == OutOfRangeCaught /\ TransmittedUnchanged

\* C6 as amended: for every capacity, an address at or beyond capacity is
\* caught by the controller with nothing put on the bus; for a capacity of
\* at most 2^24 bytes, every address that passes the bounds check is
\* transmitted unchanged in the three address bytes of the frame.
C6_UnchangedUpTo16MiB ==
    /\ OutOfRangeCaught
    /\ WLe(capacity, FromInt(16777216)) => TransmittedUnchanged

C6_Witness ==
    /\ capacity = FromInt(16777216)
    /\ lastOp.op = "read"
    /\ lastOp.a = FromInt(983040)
    /\ result = Ok
    /\ bus[1].tx = <<3, 15, 0, 0>>

\* C7 as stated: software reset always attempts exactly two bus
\* transactions, EnableReset (0x66) then Reset (0x99).
C7_AsStated ==
    lastOp.op = "reset" =>
        /\ Len(bus) = 2
        /\ bus[1].tx = <<102>>
        /\ bus[2].tx = <<153>>

\* C7 as amended: software reset starts with EnableReset (0x66) in a
\* transaction of its own; when that went through, Reset (0x99) follows as
\* the second and last transaction; when the transport fails EnableReset,
\* the operation returns the bus error and Reset is not sent.  A reset that
\* returns Ok made exactly these two transactions in this order.
C7_ResetSequence ==
    lastOp.op = "reset" =>
        /\ Len(bus) >= 1
        /\ bus[1] = [tx |-> <<102>>, wr |-> 0, rd |-> 0, rx |-> 0,
                     addr |-> NoAddr, ok |-> bus[1].ok]
        /\ bus[1].ok =>
              /\ Len(bus) = 2
              /\ bus[2] = [tx |-> <<153>>, wr |-> 0, rd |-> 0, rx |-> 0,
                           addr |-> NoAddr, ok |-> bus[2].ok]
        /\ ~bus[1].ok => Len(bus) = 1 /\ result.tag = "SpiError"
        /\ result = Ok <=> (Len(bus) = 2 /\ bus[2].ok)
        /\ series = "Q"

C7_Witness ==
    /\ lastOp.op = "reset"
    /\ result = Ok
    /\ Len(bus) = 2

\* the number of transactions of an operation's complete command sequence
SequenceLen(op) ==
    CASE op \in Mutating -> 3
      [] op = "reset"    -> 2
      [] OTHER           -> 1

Complete ==
    /\ Len(bus) = SequenceLen(lastOp.op)
    /\ \A i \in 1..Len(bus) : bus[i].ok

\* C8 as stated: an operation either transmits its complete command
\* sequence and returns success, or returns an error having put nothing on
\* the bus (no transaction of it went through).
C8_AsStated ==
    lastOp.op \in BusOps =>
        \/ result = Ok /\ Complete
        \/ result # Ok /\ \A i \in 1..Len(bus) : ~bus[i].ok

\* C8 as amended: an operation that returns success has transmitted its
\* complete command sequence; one that returns not-aligned or out-of-bounds
\* has put nothing on the bus; one that returns write-enable-failed has
\* transmitted WriteEnable and the status read and nothing else; one that
\* returns a bus error stopped at the transaction the transport failed,
\* with every earlier transaction of the sequence transmitted.
C8_NoPartialSuccess ==
    lastOp.op \in BusOps =>
        /\ result = Ok => Complete
        /\ result \in {NotAligned, OutOfBounds} => bus = <<>>
        /\ result = WriteEnableFail =>
              /\ Len(bus) = 2
              /\ bus[1].ok /\ bus[2].ok
        /\ result.tag = "SpiError" =>
              /\ bus # <<>>
              /\ Len(bus) <= SequenceLen(lastOp.op)
              /\ ~bus[Len(bus)].ok
              /\ \A i \in 1..(Len(bus) - 1) : bus[i].ok
        /\ result.tag \in {"Ok", "NotAligned", "OutOfBounds",
                           "WriteEnableFail", "SpiError"}

C8_Witness ==
    /\ lastOp.op = "page_program"
    /\ result.tag = "SpiError"
    /\ Len(bus) = 3
    /\ bus[1].ok /\ bus[2].ok

\* C9: the counts are the floor quotients of the capacity given at
\* construction by 4096, 32768 and 65536, and capacity() returns that
\* capacity; for 16 MiB they are 4096, 512 and 256.
C9_DerivedCounts ==
    ctl = "live" =>
        /\ get_capacity(capacity) = given
        /\ n_sectors(capacity, series) = 16 * given[1] + given[2] \div 4096
        /\ n_blocks_32k(capacity) = 2 * given[1] + given[2] \div 32768
        /\ n_blocks_64k(capacity) = given[1]
        /\ given = FromInt(16777216) =>
              /\ n_sectors(capacity, series) = 4096
              /\ n_blocks_32k(capacity) = 512
              /\ n_blocks_64k(capacity) = 256

C9_Witness ==
    /\ ctl = "live"
    /\ lastOp.op = "ChipErase"
    /\ given = FromInt(16777216)
    /\ n_sectors(capacity, series) = 4096
    /\ n_blocks_32k(capacity) = 512
    /\ n_blocks_64k(capacity) = 256

\* what a setter step does to line `mine` and leaves of everything else
PassThrough(mineLog, mineLevel, mineLevelBefore, otherLog) ==
    /\ Len(mineLog) = 1
    /\ mineLog[1].level = lastOp'.v
    /\ otherLog = <<>>
    /\ bus' = <<>>
    /\ result' = IF mineLog[1].res = "ok" THEN Ok
                 ELSE PinError(mineLog[1].res)
    /\ mineLevel = IF mineLog[1].res = "ok" THEN lastOp'.v
                   ELSE mineLevelBefore
    /\ UNCHANGED <<ctl, series, capacity, given>>

\* C10: set_hold(v) makes exactly one set_state(v) call on the hold line
\* and set_wp(v) exactly one on the write-protect line, whatever ran before
\* and whatever level the other line is at; the other line, the bus and
\* the capacity are left alone; the call returns Ok when the line accepts
\* and PinError wrapping the line's error when it refuses.
C10_SettersPassThrough ==
    [][ /\ lastOp'.op = "set_hold" =>
              /\ PassThrough(holdLog', holdLevel', holdLevel, wpLog')
              /\ wpLevel' = wpLevel
        /\ lastOp'.op = "set_wp" =>
              /\ PassThrough(wpLog', wpLevel', wpLevel, holdLog')
              /\ holdLevel' = holdLevel ]_vars

C10_Witness ==
    /\ lastOp = Op("set_hold", NoAddr, FromInt(0), "Low")
    /\ result = PinError("P2")
    /\ holdLog = <<[level |-> "Low", res |-> "P2"]>>
    /\ holdLevel = "High"
    /\ wpLevel = "Low"

====
